---- MODULE Spec2Model ----
(***************************************************************************)
(* Bookmark service of src/app.py: the Bookmark table (SQLite, through     *)
(* Flask-SQLAlchemy) and the request handlers that read and write it.      *)
(* Text values are sequences of one-character strings, so that split,      *)
(* strip, join and LIKE are computed character by character.               *)
(***************************************************************************)
EXTENDS Integers, Sequences, FiniteSets, TLC

(* ------------------------------ bounds --------------------------------- *)

\* largest rowid the model lets the table reach (creates are disabled above)
MaxId == 2

(* --------------------------- text helpers ------------------------------ *)

\* Python None, as a text value that no request text can equal
None == <<"None">>

\* Python truthiness of an optional string: None and '' are falsy
Truthy(s) == s # None /\ s # <<>>

\* str.lower() on one character of the model's alphabet
lowerChar(c) ==
    IF c = "A" THEN "a" ELSE IF c = "B" THEN "b" ELSE IF c = "X" THEN "x" ELSE IF c = "Y" THEN "y" ELSE c

lower(s) == [i \in 1..Len(s) |-> lowerChar(s[i])]

RECURSIVE lstrip(_)
lstrip(s) == IF s # <<>> /\ Head(s) = " " THEN lstrip(Tail(s)) ELSE s

RECURSIVE rstrip(_)
rstrip(s) == IF s # <<>> /\ s[Len(s)] = " " THEN rstrip(SubSeq(s, 1, Len(s) - 1)) ELSE s

\* str.strip()
strip(s) == rstrip(lstrip(s))

\* index of the first ',' of s, 0 when there is none
RECURSIVE FirstComma(_, _)
FirstComma(s, i) ==
    IF i > Len(s) THEN 0
    ELSE IF s[i] = "," THEN i
    ELSE FirstComma(s, i + 1)

\* str.split(','): always at least one segment, '' included
RECURSIVE split(_)
split(s) ==
    LET k == FirstComma(s, 1) IN
    IF k = 0 THEN << s >>
    ELSE << SubSeq(s, 1, k - 1) >> \o split(SubSeq(s, k + 1, Len(s)))

\* ','.join(list)
RECURSIVE join(_)
join(l) ==
    IF l = <<>> THEN <<>>
    ELSE IF Len(l) = 1 THEN l[1]
    ELSE l[1] \o <<",">> \o join(Tail(l))

\* [t.strip() for t in segs if t.strip()]
RECURSIVE StripNonBlank(_)
StripNonBlank(segs) ==
    IF segs = <<>> THEN <<>>
    ELSE IF strip(Head(segs)) # <<>> THEN << strip(Head(segs)) >> \o StripNonBlank(Tail(segs))
    ELSE StripNonBlank(Tail(segs))

\* ','.join([t.strip() for t in tags.split(',') if t.strip()])
tags_clean(tags) == join(StripNonBlank(split(tags)))

\* SQLite's LIKE: '%' is any run of characters, '_' any one character,
\* letters compare without regard to (ASCII) case
RECURSIVE Like(_, _)
Like(p, s) ==
    IF p = <<>> THEN s = <<>>
    ELSE IF Head(p) = "%" THEN Like(Tail(p), s) \/ (s # <<>> /\ Like(p, Tail(s)))
    ELSE /\ s # <<>>
         /\ (Head(p) = "_" \/ lowerChar(Head(p)) = lowerChar(Head(s)))
         /\ Like(Tail(p), Tail(s))

\* Column.contains(x): col LIKE '%' || x || '%'
contains(col, x) == Like(<<"%">> \o x \o <<"%">>, col)

\* Column.ilike(f'%{x}%'): lower(col) LIKE lower('%x%')
ilike(col, x) == Like(lower(<<"%">> \o x \o <<"%">>), lower(col))

(* ------------------------------ inputs --------------------------------- *)

Form(url, title, tags) == [ url |-> url, title |-> title, tags |-> tags ]

\* the comma-separated text " b,,a" typed into the tags field
TagText == <<" ", "b", ",", ",", "a">>

\* POST /add forms: request.form.get gives None for a field left out
AddForms ==
    { Form(None, <<"y">>, None), Form(<<"b">>, <<>>, TagText), Form(<<"b">>, <<"y">>, TagText) }

\* POST /edit/<id> forms
EditForms ==
    { Form(None, <<"X">>, None), Form(<<>>, <<"X">>, TagText), Form(<<"b">>, <<"X">>, None) }

\* POST /api/bookmarks bodies; tags is a JSON list of texts ([] when left out)
ApiBodies ==
    { Form(<<>>, <<"y">>, <<>>), Form(<<"b">>, None, << <<"a">> >>),
      Form(<<"b">>, <<"y">>, <<>>),
      Form(<<"b">>, <<"y">>, << <<"a">>, <<>>, <<" ", "a">> >>) }

\* request.args.get('tag'), ('title'), ('q')
TagFilters == { None, <<"b">>, <<"_">> }

TitleFilters == { <<>>, <<"x">> }

QFilters == { None, <<"b">>, <<"x">> }

\* the <int:bookmark_id> of a route
Ids == 1..MaxId

(* ------------------------------- state --------------------------------- *)

VARIABLES
    store,    \* the bookmark table: rowid -> [url, title, tags]
    issued,   \* history: the ids that some create has assigned
    deleted,  \* history: the ids that some delete has removed
    req,      \* the request handled last
    resp      \* its response

vars == << store, issued, deleted, req, resp >>

\* a request with nothing supplied
NoReq == [ op |-> "none", method |-> "GET", id |-> 0, url |-> None, title |-> None,
           tags |-> None, taglist |-> <<>>, tag |-> None, q |-> None ]

Response(status, flash, location, body) ==
    [ status |-> status, flash |-> flash, location |-> location, body |-> body ]

Init ==
    /\ store = <<>>
    /\ issued = {}
    /\ deleted = {}
    /\ req = NoReq
    /\ resp = Response(0, "none", "none", <<>>)

(* ------------------------------ the table ------------------------------ *)

Max(S) == CHOOSE m \in S : \A x \in S : x <= m

\* the rowid SQLite gives an INTEGER PRIMARY KEY row inserted without an id:
\* one more than the largest rowid in the table
NextRowid(s) == IF DOMAIN s = {} THEN 1 ELSE Max(DOMAIN s) + 1

\* db.session.add(bookmark); db.session.commit()
Insert(s, b) ==
    LET n == NextRowid(s) IN [ i \in DOMAIN s \cup {n} |-> IF i = n THEN b ELSE s[i] ]

\* db.session.delete(bookmark); db.session.commit()
Delete(s, id) == [ i \in DOMAIN s \ {id} |-> s[i] ]

\* Bookmark.query.get(id) finds a row
Found(s, id) == id \in DOMAIN s

\* Bookmark.query.all(): the rowids in table order
RECURSIVE all(_)
all(S) ==
    IF S = {} THEN <<>>
    ELSE LET m == Max(S) IN Append(all(S \ {m}), m)

\* Bookmark.to_dict
to_dict(id, b) ==
    [ id |-> id, url |-> b.url, title |-> b.title,
      tags |-> IF b.tags # <<>> THEN split(b.tags) ELSE <<>> ]

\* [b.to_dict() for b in bookmarks]
to_dicts(s, ids) == [ k \in 1..Len(ids) |-> to_dict(ids[k], s[ids[k]]) ]

\* a required-field test that rejects only when both fields are missing
RequiredMissing_Both(url, title) == ~Truthy(url) /\ ~Truthy(title)

\* the required-field test of the two create handlers: not url or not title
RequiredMissing(url, title) == ~Truthy(url) \/ ~Truthy(title)

(* --------------------------- tag aggregation --------------------------- *)

\* tag_count[tag] = tag_count.get(tag, 0) + 1 on an insertion-ordered dict
Tally(tc, tag) ==
    IF \E k \in 1..Len(tc) : tc[k].name = tag
    THEN [ k \in 1..Len(tc) |-> IF tc[k].name = tag
                                 THEN [ name |-> tag, count |-> tc[k].count + 1 ]
                                 ELSE tc[k] ]
    ELSE Append(tc, [ name |-> tag, count |-> 1 ])

\* the tally loop without tag.strip()
RECURSIVE TallySegments_NoStrip(_, _)
TallySegments_NoStrip(tc, segs) ==
    IF segs = <<>> THEN tc
    ELSE TallySegments_NoStrip(IF Head(segs) # <<>> THEN Tally(tc, Head(segs)) ELSE tc,
                               Tail(segs))

\* for tag in bookmark.tags.split(','): tag = tag.strip(); if tag: count it
RECURSIVE TallySegments(_, _)
TallySegments(tc, segs) ==
    IF segs = <<>> THEN tc
    ELSE TallySegments(IF strip(Head(segs)) # <<>> THEN Tally(tc, strip(Head(segs))) ELSE tc,
                       Tail(segs))

\* for bookmark in bookmarks: if bookmark.tags: ...
RECURSIVE TallyBookmarks(_, _, _)
TallyBookmarks(tc, s, ids) ==
    IF ids = <<>> THEN tc
    ELSE TallyBookmarks(IF s[Head(ids)].tags # <<>>
                        THEN TallySegments(tc, split(s[Head(ids)].tags))
                        ELSE tc,
                        s, Tail(ids))

\* one step of the stable sort: x goes after every entry whose count is not smaller
InsertByCount(sorted, x) ==
    LET before == { k \in 1..Len(sorted) : sorted[k].count < x.count }
        pos == IF before = {} THEN Len(sorted) + 1
               ELSE CHOOSE k \in before : \A j \in before : k <= j
    IN SubSeq(sorted, 1, pos - 1) \o << x >> \o SubSeq(sorted, pos, Len(sorted))

\* sorted(tag_count.items(), key=lambda x: x[1], reverse=True)
RECURSIVE SortedByCount(_)
SortedByCount(items) ==
    IF items = <<>> THEN <<>>
    ELSE InsertByCount(SortedByCount(SubSeq(items, 1, Len(items) - 1)), items[Len(items)])

get_tags_with_counts(s) == SortedByCount(TallyBookmarks(<<>>, s, all(DOMAIN s)))

(* ------------------------------- search -------------------------------- *)

\* the filters search_page adds to the query, one per provided parameter
Matches(b, tag, title, q) ==
    /\ Truthy(tag) => contains(b.tags, tag)
    /\ Truthy(title) => ilike(b.title, title)
    /\ Truthy(q) => (ilike(b.tags, q) \/ ilike(b.title, q) \/ ilike(b.url, q))

RECURSIVE SelectIds(_, _, _, _, _)
SelectIds(s, ids, tag, title, q) ==
    IF ids = <<>> THEN <<>>
    ELSE (IF Matches(s[Head(ids)], tag, title, q) THEN << Head(ids) >> ELSE <<>>)
         \o SelectIds(s, Tail(ids), tag, title, q)

\* results of search_page: None unless a parameter is provided
SearchResults(s, tag, title, q) ==
    IF Truthy(tag) \/ Truthy(title) \/ Truthy(q)
    THEN [ none |-> FALSE, list |-> to_dicts(s, SelectIds(s, all(DOMAIN s), tag, title, q)) ]
    ELSE [ none |-> TRUE ]

(* ------------------------------ handlers ------------------------------- *)

\* GET /
home_page ==
    /\ req' = [ NoReq EXCEPT !.op = "home_page" ]
    /\ resp' = Response(200, "none", "none",
                        [ bookmarks |-> to_dicts(store, all(DOMAIN store)),
                          tags |-> get_tags_with_counts(store) ])
    /\ UNCHANGED << store, issued, deleted >>

\* GET /add
add_page_get ==
    /\ req' = [ NoReq EXCEPT !.op = "add_page" ]
    /\ resp' = Response(200, "none", "none", <<>>)
    /\ UNCHANGED << store, issued, deleted >>

\* POST /add
add_page_post ==
    \E form \in AddForms :
      LET url == form.url
          title == form.title
          tags == IF form.tags = None THEN <<>> ELSE form.tags
      IN
        /\ req' = [ NoReq EXCEPT !.op = "add_page", !.method = "POST",
                                 !.url = url, !.title = title, !.tags = form.tags ]
        /\ IF RequiredMissing(url, title)
           THEN /\ resp' = Response(302, "error", "add_page", <<>>)
                /\ UNCHANGED << store, issued, deleted >>
           ELSE /\ NextRowid(store) <= MaxId
                /\ store' = Insert(store, [ url |-> url, title |-> title,
                                            tags |-> tags_clean(tags) ])
                /\ issued' = issued \cup { NextRowid(store) }
                /\ resp' = Response(302, "success", "home_page", <<>>)
                /\ UNCHANGED deleted

add_page == add_page_get \/ add_page_post

\* GET /edit/<id>
edit_page_get ==
    \E id \in Ids :
        /\ req' = [ NoReq EXCEPT !.op = "edit_page", !.id = id ]
        /\ resp' = IF Found(store, id)
                   THEN Response(200, "none", "none", to_dict(id, store[id]))
                   ELSE Response(404, "none", "none", <<>>)
        /\ UNCHANGED << store, issued, deleted >>

\* POST /edit/<id>; the commit fails on a NULL url or title (nullable=False)
edit_page_post ==
    \E id \in Ids, form \in EditForms :
      LET url == form.url
          title == form.title
          tags == IF form.tags = None THEN <<>> ELSE form.tags
      IN
        /\ req' = [ NoReq EXCEPT !.op = "edit_page", !.method = "POST", !.id = id,
                                 !.url = url, !.title = title, !.tags = form.tags ]
        /\ IF ~Found(store, id)
           THEN /\ resp' = Response(404, "none", "none", <<>>)
                /\ store' = store
           ELSE IF url = None \/ title = None
           THEN /\ resp' = Response(500, "none", "none", <<>>)
                /\ store' = store
           ELSE /\ store' = [ store EXCEPT ![id] =
                                [ url |-> url, title |-> title, tags |-> tags_clean(tags) ] ]
                /\ resp' = Response(302, "success", "home_page", <<>>)
        /\ UNCHANGED << issued, deleted >>

edit_page == edit_page_get \/ edit_page_post

\* a delete that does not look the row up first and always reports success
delete_bookmark_form_NoLookup ==
    \E id \in Ids :
        /\ req' = [ NoReq EXCEPT !.op = "delete_bookmark_form", !.method = "POST", !.id = id ]
        /\ store' = Delete(store, id)
        /\ deleted' = deleted \cup {id}
        /\ resp' = Response(302, "success", "home_page", <<>>)
        /\ UNCHANGED issued

\* POST /delete/<id>
delete_bookmark_form ==
    \E id \in Ids :
        /\ req' = [ NoReq EXCEPT !.op = "delete_bookmark_form", !.method = "POST", !.id = id ]
        /\ IF Found(store, id)
           THEN /\ store' = Delete(store, id)
                /\ deleted' = deleted \cup {id}
                /\ resp' = Response(302, "success", "home_page", <<>>)
           ELSE /\ resp' = Response(404, "none", "none", <<>>)
                /\ UNCHANGED << store, deleted >>
        /\ UNCHANGED issued

\* GET /search
search_page ==
    \E tag \in TagFilters, title \in TitleFilters, q \in QFilters :
        /\ req' = [ NoReq EXCEPT !.op = "search_page", !.tag = tag, !.title = title, !.q = q ]
        /\ resp' = Response(200, "none", "none", SearchResults(store, tag, title, q))
        /\ UNCHANGED << store, issued, deleted >>

\* GET /api/bookmarks
api_get_bookmarks ==
    /\ req' = [ NoReq EXCEPT !.op = "api_get_bookmarks" ]
    /\ resp' = Response(200, "none", "none", to_dicts(store, all(DOMAIN store)))
    /\ UNCHANGED << store, issued, deleted >>

\* POST /api/bookmarks
api_add_bookmark ==
    \E data \in ApiBodies :
      LET url == data.url
          title == data.title
          taglist == data.tags
      IN
        /\ req' = [ NoReq EXCEPT !.op = "api_add_bookmark", !.method = "POST",
                                 !.url = url, !.title = title, !.taglist = taglist ]
        /\ IF RequiredMissing(url, title)
           THEN /\ resp' = Response(400, "none", "none", <<>>)
                /\ UNCHANGED << store, issued, deleted >>
           ELSE /\ NextRowid(store) <= MaxId
                /\ store' = Insert(store, [ url |-> url, title |-> title, tags |-> join(taglist) ])
                /\ issued' = issued \cup { NextRowid(store) }
                /\ resp' = Response(201, "none", "none",
                                    to_dict(NextRowid(store), store'[NextRowid(store)]))
                /\ UNCHANGED deleted

\* DELETE /api/bookmarks/<id>
api_delete_bookmark ==
    \E id \in Ids :
        /\ req' = [ NoReq EXCEPT !.op = "api_delete_bookmark", !.method = "DELETE", !.id = id ]
        /\ IF Found(store, id)
           THEN /\ store' = Delete(store, id)
                /\ deleted' = deleted \cup {id}
                /\ resp' = Response(200, "none", "none", <<>>)
           ELSE /\ resp' = Response(404, "none", "none", <<>>)
                /\ UNCHANGED << store, deleted >>
        /\ UNCHANGED issued

Next ==
    \/ home_page
    \/ add_page
    \/ edit_page
    \/ delete_bookmark_form
    \/ search_page
    \/ api_get_bookmarks
    \/ api_add_bookmark
    \/ api_delete_bookmark

Spec == Init /\ [][Next]_vars

(* ------------------------- vocabulary of the claims -------------------- *)

IsEmptyOrMissing(t) == t = None \/ t = <<>>

IsNonEmptyText(t) == t # <<>>

\* T with every entry trimmed and the blank entries dropped, order kept
TrimmedNonEmpty(T) == SelectSeq([ k \in 1..Len(T) |-> strip(T[k]) ], IsNonEmptyText)

\* x occurs in s as a contiguous run of characters
IsSubstring(x, s) == \E k \in 0..(Len(s) - Len(x)) : SubSeq(s, k + 1, k + Len(x)) = x

\* x occurs in s when letter case is ignored
IsSubstringNoCase(x, s) == IsSubstring(lower(x), lower(s))

CreateOps == { "add_page", "api_add_bookmark" }

ByIdOps == { "edit_page", "delete_bookmark_form", "api_delete_bookmark" }

DeleteOps == { "delete_bookmark_form", "api_delete_bookmark" }

\* the response of a rejected create: flash 'error' and back to the form, or 400
IsValidationError(op, r) ==
    \/ op = "add_page" /\ r.status = 302 /\ r.flash = "error" /\ r.location = "add_page"
    \/ op = "api_add_bookmark" /\ r.status = 400

\* the tag sequence a create request supplies
SuppliedTags(r) ==
    IF r.op = "api_add_bookmark" THEN r.taglist
    ELSE IF r.tags = None THEN <<>>
    ELSE split(r.tags)

\* the comma-separated segments of a stored tag string; '' has none
Segments(tags) == IF tags = <<>> THEN <<>> ELSE split(tags)

\* number of segments of row i that trim to name
OccurrencesIn(i, name) ==
    Cardinality({ k \in 1..Len(Segments(store[i].tags)) : strip(Segments(store[i].tags)[k]) = name })

RECURSIVE TotalOccurrences(_, _)
TotalOccurrences(S, name) ==
    IF S = {} THEN 0
    ELSE LET i == CHOOSE x \in S : TRUE
         IN OccurrencesIn(i, name) + TotalOccurrences(S \ {i}, name)

\* the places of the table's tag segments: << row, index in the row >>
Positions ==
    UNION { { << i, k >> : k \in 1..Len(Segments(store[i].tags)) } : i \in DOMAIN store }

TagAt(p) == strip(Segments(store[p[1]].tags)[p[2]])

\* p is read before x: rows in table order, each row left to right
ReadBefore(p, x) == p[1] < x[1] \/ (p[1] = x[1] /\ p[2] < x[2])

\* the distinct non-empty trimmed tag names of the table
TagNames == { TagAt(p) : p \in Positions } \ { <<>> }

\* where a name is met first
FirstSeen(name) ==
    LET at == { p \in Positions : TagAt(p) = name }
    IN CHOOSE p \in at : \A x \in at : x = p \/ ReadBefore(p, x)

\* what search_page is claimed to test on one row
Satisfies(b, tag, title, q) ==
    /\ Truthy(tag) => IsSubstring(tag, b.tags)
    /\ Truthy(title) => IsSubstringNoCase(title, b.title)
    /\ Truthy(q) => \/ IsSubstringNoCase(q, b.title)
                    \/ IsSubstringNoCase(q, b.url)
                    \/ IsSubstringNoCase(q, b.tags)

(* ------------------------------- claims -------------------------------- *)

\* C1: a create request (POST /add or POST /api/bookmarks) whose url or title is
\* empty or missing is answered with a validation error and leaves the table as it was.
C1_CreateRejected ==
    [][ (req'.op \in CreateOps /\ req'.method = "POST"
           /\ (IsEmptyOrMissing(req'.url) \/ IsEmptyOrMissing(req'.title)))
        => (IsValidationError(req'.op, resp') /\ store' = store) ]_vars

C1_Witness ==
    /\ req.op = "add_page" /\ req.method = "POST"
    /\ req.url # None /\ req.url # <<>> /\ req.title = <<>>
    /\ resp.flash = "error"
    /\ DOMAIN store # {}

\* C2: an id that a create has assigned is never assigned again by a later create.
C2_IdsNeverReused ==
    [][ \A i \in DOMAIN store' \ DOMAIN store : i \notin issued ]_vars

\* C3: every stored bookmark has a non-empty url and a non-empty title.
C3_UrlTitleNonEmpty ==
    \A i \in DOMAIN store : ~IsEmptyOrMissing(store[i].url) /\ ~IsEmptyOrMissing(store[i].title)

\* C4: no stored tag string has an empty or blank segment, or a segment with
\* leading or trailing whitespace.
C4_TagSegmentsClean ==
    \A i \in DOMAIN store :
        \A k \in 1..Len(Segments(store[i].tags)) :
            LET seg == Segments(store[i].tags)[k]
            IN seg # <<>> /\ strip(seg) = seg

\* C5: the tags that to_dict returns for a record just created are the supplied
\* tag sequence with its entries trimmed and the blank ones dropped, in order.
C5_TagRoundTrip ==
    [][ (req'.op \in CreateOps /\ req'.method = "POST")
        => \A i \in DOMAIN store' \ DOMAIN store :
             to_dict(i, store'[i]).tags = TrimmedNonEmpty(SuppliedTags(req')) ]_vars

\* C6: an edit of an existing bookmark that supplies only a title sets the title
\* and changes nothing else, in that record and in the others.
C6_TitleOnlyUpdate ==
    [][ (req'.op = "edit_page" /\ req'.method = "POST" /\ req'.id \in DOMAIN store
           /\ req'.url = None /\ req'.tags = None /\ req'.title # None)
        => store' = [ store EXCEPT ![req'.id].title = req'.title ] ]_vars

\* C7: edit and delete addressed to an id that no create has issued answer
\* not-found and leave the table as it was.
C7_NeverIssuedNotFound ==
    [][ (req'.op \in ByIdOps /\ req'.id \notin issued)
        => (resp'.status = 404 /\ store' = store) ]_vars

C7_Witness ==
    /\ req.op \in DeleteOps
    /\ req.id \notin issued
    /\ resp.status = 404
    /\ DOMAIN store # {}

\* C8: once a delete of id i has succeeded, every later edit or delete addressed
\* to i answers not-found; and a delete leaves every other record unchanged.
C8_DeletedStaysGone ==
    [][ /\ (req'.op \in ByIdOps /\ req'.id \in deleted) => resp'.status = 404
        /\ (req'.op \in DeleteOps /\ req'.id \in DOMAIN store)
             => store' = [ i \in DOMAIN store \ {req'.id} |-> store[i] ] ]_vars

\* C9: the tag list of the home page has one entry per distinct non-empty trimmed
\* tag name, with the number of its occurrences in all rows, by descending count,
\* equal counts in first-encountered order.
C9_TagCounts ==
    req.op = "home_page" =>
        LET tc == resp.body.tags IN
        /\ { tc[k].name : k \in 1..Len(tc) } = TagNames
        /\ Len(tc) = Cardinality(TagNames)
        /\ \A k \in 1..Len(tc) : tc[k].count = TotalOccurrences(DOMAIN store, tc[k].name)
        /\ \A j, k \in 1..Len(tc) :
             j < k => \/ tc[j].count > tc[k].count
                      \/ /\ tc[j].count = tc[k].count
                         /\ ReadBefore(FirstSeen(tc[j].name), FirstSeen(tc[k].name))

\* the sort has moved a later-met name in front of an earlier-met one
C9_Witness ==
    /\ req.op = "home_page"
    /\ Len(resp.body.tags) = 2
    /\ resp.body.tags[1].count > resp.body.tags[2].count
    /\ ReadBefore(FirstSeen(resp.body.tags[2].name), FirstSeen(resp.body.tags[1].name))

\* C10: search_page returns the rows that satisfy every provided filter (tag:
\* substring of the tag string; title: substring ignoring case; q: title or url
\* or tag string contains q ignoring case), and None when no filter is provided.
C10_SearchConjunctive ==
    req.op = "search_page" =>
        IF Truthy(req.tag) \/ Truthy(req.title) \/ Truthy(req.q)
        THEN /\ ~resp.body.none
             /\ { resp.body.list[k].id : k \in 1..Len(resp.body.list) }
                  = { i \in DOMAIN store : Satisfies(store[i], req.tag, req.title, req.q) }
             /\ \A j, k \in 1..Len(resp.body.list) :
                  j # k => resp.body.list[j].id # resp.body.list[k].id
             /\ \A k \in 1..Len(resp.body.list) :
                  resp.body.list[k] = to_dict(resp.body.list[k].id, store[resp.body.list[k].id])
        ELSE resp.body.none

====
